---- MODULE Spec2Model ----
(* A model of package jsondiscrim: the Const type-level constant with its   *)
(* process-wide memo (constByType), discriminator inference                 *)
(* (determineDiscriminator, constFields) and the dispatching decode routine *)
(* built by Structs / StructsWithFallback (with fieldValue).                *)
EXTENDS Integers, Sequences, FiniteSets, TLC

VARIABLES
  tIsInterface, \* whether type parameter T of StructsWithFallback is an interface type
  fallback,     \* the fallback argument of StructsWithFallback (NilChoice when absent)
  choices,      \* the choices argument: a sequence of candidate values
  built,        \* "no" before construction, then "ok" or "panic"
  panicVal,     \* the value construction panicked with (NoPanic otherwise)
  discrimField, \* captured by the decode closure: the discriminator wire name ("" if none)
  discrimByValue, \* captured by the decode closure: set of <<Go value, candidate>> pairs
  rangeOrder,   \* the order in which `range discrims` visited the wire names
  constByType,  \* the sync.Map memo: identity struct S -> *constInfo (NoInfo when absent)
  input,        \* the JSON value handed to the last decode call (NoInput before any)
  outcome,      \* result of the last decode call: "none", "ok", "error" or "panic"
  errMsg,       \* message of the returned error / raised panic of the last decode call
  target,       \* the candidate or fallback value the last decode call chose ("zero")
  dst,          \* the destination *src of the decode routine
  dstBefore,    \* *src as it was when the last decode call started
  call,         \* the last Const method call and its result (SpecConst)
  goroutines,   \* the goroutines calling Value() concurrently (SpecValue)
  heap,         \* the structs allocated on the heap, by address (SpecAlloc)
  refs          \* the pointers held: those passed at construction and the results of the decode calls (SpecAlloc)

vars == <<tIsInterface, fallback, choices, built, panicVal, discrimField, discrimByValue, rangeOrder, constByType, input, outcome, errMsg, target, dst, dstBefore, call, goroutines, heap, refs>>

(***************************************************************************)
(* Bounds of the model.                                                    *)
(***************************************************************************)
MaxChoices == 2

MaxMembers == 2

MaxGoroutines == 2

MaxResults == 2

(***************************************************************************)
(* JSON texts, as the codec's abstract syntax: a value has a kind, a       *)
(* string or number payload and, for an object, its members in textual     *)
(* order.  Go values decoded from them carry their dynamic type.           *)
(***************************************************************************)
JString(s) == [k |-> "string", s |-> s, n |-> 0, mem |-> <<>>]

JNumber(n) == [k |-> "number", s |-> "", n |-> n, mem |-> <<>>]

JBool(b) == [k |-> "bool", s |-> "", n |-> IF b THEN 1 ELSE 0, mem |-> <<>>]

JNull == [k |-> "null", s |-> "", n |-> 0, mem |-> <<>>]

JArray == [k |-> "array", s |-> "", n |-> 0, mem |-> <<>>]

JObject(members) == [k |-> "object", s |-> "", n |-> 0, mem |-> members]

Member(name, val) == [name |-> name, val |-> val]

GoVal(t, s, n) == [t |-> t, s |-> s, n |-> n]

GoNil == GoVal("nil", "", 0)

\* The element of a one-element set: The({e(x) : x \in {d}}) is e(d), with d
\* evaluated once.
The(S) == CHOOSE x \in S : TRUE

\* The zero value of a Go scalar type.
ZeroOf(T) == GoVal(T, "", 0)

(***************************************************************************)
(* The external codec (go-json-experiment/json) on scalars.                *)
(***************************************************************************)
\* The result of a codec call: err is "" on success.
Decoded(err, val) == [err |-> err, val |-> val]

\* json.Unmarshal(data, &got) for got of scalar type T: a JSON null leaves the
\* zero value, a value of the matching kind is stored, any other kind is an error.
UnmarshalScalar(T, data) ==
  CASE data.k = "null" -> Decoded("", ZeroOf(T))
    [] data.k = "string" /\ T = "string" -> Decoded("", GoVal("string", data.s, 0))
    [] data.k = "number" /\ T \in {"int", "float64"} -> Decoded("", GoVal(T, "", data.n))
    [] data.k = "bool" /\ T = "bool" -> Decoded("", GoVal("bool", "", data.n))
    [] OTHER -> Decoded("cannot unmarshal JSON " \o data.k \o " into Go " \o T, ZeroOf(T))

\* json.UnmarshalDecode(d, &v) for v of type any: the dynamic type of the
\* result is fixed by the JSON kind; every JSON number becomes a float64.
UnmarshalAny(data) ==
  CASE data.k = "string" -> GoVal("string", data.s, 0)
    [] data.k = "number" -> GoVal("float64", "", data.n)
    [] data.k = "bool" -> GoVal("bool", "", data.n)
    [] data.k = "null" -> GoNil
    [] data.k = "object" -> GoVal("map", "", Len(data.mem))
    [] OTHER -> GoVal("slice", "", 0)

\* json.Marshal of a Go scalar.
MarshalScalar(v) ==
  CASE v.t = "string" -> JString(v.s)
    [] v.t \in {"int", "float64"} -> JNumber(v.n)
    [] v.t = "bool" -> JBool(v.n = 1)
    [] OTHER -> JNull

\* The texts used as `const` tag literals and what the JSON parser makes of
\* them: a bare word such as foo is not JSON at all.
NumberTexts == {"42", "0"}

NumberOfText(text) == IF text = "42" THEN 42 ELSE 0

ParseText(text) ==
  CASE text \in NumberTexts -> [ok |-> TRUE, j |-> JNumber(NumberOfText(text))]
    [] text = "true" -> [ok |-> TRUE, j |-> JBool(TRUE)]
    [] text = "false" -> [ok |-> TRUE, j |-> JBool(FALSE)]
    [] text = "null" -> [ok |-> TRUE, j |-> JNull]
    [] OTHER -> [ok |-> FALSE, j |-> JNull]

(***************************************************************************)
(* Const[T, S] and the memo constByType.                                   *)
(***************************************************************************)
\* An identity struct S: an anonymous struct type, identified by its shape.
IdStruct(ftype, tag) == [kind |-> "struct", nfields |-> 1, ftype |-> ftype, hasTag |-> TRUE, tag |-> tag]

\* The type Const[T, S].
Const(T, S) == [T |-> T, S |-> S]

\* No Const: the type of a field that is not a Const.
NoConst == Const("", [kind |-> "", nfields |-> 0, ftype |-> "", hasTag |-> FALSE, tag |-> ""])

\* *constInfo[T]
constInfo(valueType, value) == [valueType |-> valueType, value |-> value]

\* The absent memo entry.
NoInfo == constInfo("", GoNil)

\* The result of Value(): panic is "" when it returned val; memo is the memo
\* afterwards.
Valued(panic, val, memo) == [panic |-> panic, val |-> val, memo |-> memo]

makeConstInfo(c) ==
  CASE c.S.kind # "struct" -> [panic |-> "const type argument is not struct", info |-> NoInfo]
    [] c.S.nfields # 1 -> [panic |-> "const type argument is not struct", info |-> NoInfo]
    [] c.S.ftype # c.T -> [panic |-> "struct field type does not agree with type parameter", info |-> NoInfo]
    [] ~c.S.hasTag -> [panic |-> "const type argument field has no const tag", info |-> NoInfo]
    [] c.T = "string" -> [panic |-> "", info |-> constInfo(c.T, GoVal("string", c.S.tag, 0))]
    [] OTHER ->
       LET parsed == ParseText(c.S.tag)
           got == UnmarshalScalar(c.T, parsed.j)
       IN IF ~parsed.ok \/ got.err # ""
          THEN [panic |-> "malformed const struct field tag", info |-> NoInfo]
          ELSE [panic |-> "", info |-> constInfo(c.T, got.val)]

\* A variant of LoadOrStore that stores whether or not the key is present.
StoreAlways(memo, S, info) == [memo EXCEPT ![S] = info]

\* sync.Map.LoadOrStore: stores only when the key is absent.
LoadOrStore(memo, S, info) == IF memo[S] = NoInfo THEN [memo EXCEPT ![S] = info] ELSE memo

\* A variant of the assertion below that takes the value of the entry
\* whatever its type.
ValueLoadedUnasserted(c, memo) == Valued("", memo[c.S].value, memo)

\* Value() once an entry for S is loaded: the type assertion to *constInfo[T].
ValueLoaded(c, memo) ==
  IF memo[c.S].valueType = c.T
  THEN Valued("", memo[c.S].value, memo)
  ELSE Valued("struct field type does not agree with type parameter", GoNil, memo)

Value(c, memo) ==
  IF memo[c.S] = NoInfo
  THEN The({IF mk.panic # "" THEN Valued(mk.panic, GoNil, memo)
             ELSE ValueLoaded(c, LoadOrStore(memo, c.S, mk.info)) : mk \in {makeConstInfo(c)}})
  ELSE ValueLoaded(c, memo)

\* A variant of MarshalJSON that writes the text of the const tag as a JSON
\* string, whatever T is.
MarshalJSONOfTag(c, memo) ==
  The({[panic |-> v.panic, out |-> IF v.panic = "" THEN JString(c.S.tag) ELSE JNull, memo |-> v.memo] : v \in {Value(c, memo)}})

\* MarshalJSON: json.Marshal(v.Value()).
MarshalJSON(c, memo) ==
  The({[panic |-> v.panic, out |-> IF v.panic = "" THEN MarshalScalar(v.val) ELSE JNull, memo |-> v.memo] : v \in {Value(c, memo)}})

\* A variant of UnmarshalJSON that decodes and does not compare.
UnmarshalJSONUnchecked(c, data, memo) ==
  The({CASE v.panic # "" -> [panic |-> v.panic, err |-> "", got |-> GoNil, want |-> GoNil, memo |-> v.memo]
         [] got.err # "" -> [panic |-> "", err |-> got.err, got |-> GoNil, want |-> GoNil, memo |-> v.memo]
         [] OTHER -> [panic |-> "", err |-> "", got |-> GoNil, want |-> GoNil, memo |-> v.memo]
       : v \in {Value(c, memo)}, got \in {UnmarshalScalar(c.T, data)}})

\* UnmarshalJSON: err is "" on success; got and want are the two values the
\* "unexpected const value" error is formatted with.
UnmarshalJSON(c, data, memo) ==
  The({CASE v.panic # "" -> [panic |-> v.panic, err |-> "", got |-> GoNil, want |-> GoNil, memo |-> v.memo]
         [] got.err # "" -> [panic |-> "", err |-> got.err, got |-> GoNil, want |-> GoNil, memo |-> v.memo]
         [] got.val # v.val -> [panic |-> "", err |-> "unexpected const value", got |-> got.val, want |-> v.val, memo |-> v.memo]
         [] OTHER -> [panic |-> "", err |-> "", got |-> GoNil, want |-> GoNil, memo |-> v.memo]
       : v \in {Value(c, memo)}, got \in {UnmarshalScalar(c.T, data)}})

\* constValue: Value() boxed in an interface value.
constValue(c, memo) == Value(c, memo)

(***************************************************************************)
(* Struct types and the values passed as choices or fallback.              *)
(***************************************************************************)
\* A struct field: its Go name, the name and options of its `json` tag, whether
\* it is exported, and its type: a Const ("const", with const the Const type),
\* a string, or a jsontext.Value.
Field(name, tagName, tagOpts, exported, ftype, const) == [name |-> name, tagName |-> tagName, tagOpts |-> tagOpts, exported |-> exported, ftype |-> ftype, const |-> const]

ConstField(name, tagName, T, tag) == Field(name, tagName, "", TRUE, "const", Const(T, IdStruct(T, tag)))

StringField(name, tagName) == Field(name, tagName, "", TRUE, "string", NoConst)

StructType(name, fields) == [name |-> name, kind |-> "struct", fields |-> fields]

\* The test types.  An embedded BaseAnimal[S] is written as its promoted
\* field Type.
Dog == StructType("Dog", <<ConstField("Type", "type", "string", "dog"), StringField("Bark", "")>>)

Cat == StructType("Cat", <<ConstField("Type", "type", "string", "cat"), StringField("Meow", "")>>)

Car == StructType("Car", <<ConstField("Kind", "", "string", "car"), StringField("Brand", "")>>)

OtherAnimal == StructType("OtherAnimal", <<StringField("Type", "type"), Field("OtherFields", "", "unknown", TRUE, "jsontext.Value", NoConst)>>)

NoDiscrim1 == StructType("NoDiscrim1", <<StringField("Field1", "")>>)

Ambig1 == StructType("Ambig1", <<ConstField("Field1", "", "string", "foo"), ConstField("Field2", "", "string", "bar")>>)

Ambig2 == StructType("Ambig2", <<ConstField("Field1", "", "string", "bar"), ConstField("Field2", "", "string", "foo")>>)

\* Ambig1 with a third Const field.
Ambig3 == StructType("Ambig3", <<ConstField("Field1", "", "string", "foo"), ConstField("Field2", "", "string", "bar"), ConstField("Field3", "", "string", "baz")>>)

DuplicateJSON == StructType("DuplicateJSON", <<ConstField("Field1", "same", "string", "foo"), ConstField("Field2", "same", "string", "bar")>>)

\* A struct in which a Const field and a string field carry the same json name.
DuplicateMixed == StructType("DuplicateMixed", <<ConstField("Type", "type", "string", "foo"), StringField("Name", "type")>>)

WithUnexported == StructType("WithUnexported", <<ConstField("Type", "", "string", "foo"), Field("unexported", "", "", FALSE, "string", NoConst), StringField("Eexported", "")>>)

\* Candidates whose discriminator is the number 42 / the boolean true, as
\* the Const[int, ...] and Const[bool, ...] of TestConstValue.
Answer == StructType("Answer", <<ConstField("Type", "type", "int", "42"), StringField("Bark", "")>>)

Flag == StructType("Flag", <<ConstField("Type", "type", "bool", "true"), StringField("Bark", "")>>)

NotStruct == [name |-> "NotStruct", kind |-> "int", fields |-> <<>>]

NoType == [name |-> "", kind |-> "", fields |-> <<>>]

\* A value of interface type T: (*S)(nil) or &S{...} is form "ptr", S{...}
\* is form "struct", NotStruct(0) is form "other"; the nil interface has no type.
Ptr(t) == [form |-> "ptr", type |-> t]

Val(t) == [form |-> IF t.kind = "struct" THEN "struct" ELSE "other", type |-> t]

NilChoice == [form |-> "nil", type |-> NoType]

isNil(x) == x.form = "nil"

(***************************************************************************)
(* Discriminator inference.                                                *)
(***************************************************************************)
\* Go maps: byValue (map[any]T) is a set of entries with distinct keys;
\* fields (map[string]any) and discrims (map[string]map[any]T) are functions
\* on the names stored so far.
Entry(key, choice) == [key |-> key, choice |-> choice]

MapPut(m, key, choice) == {e \in m : e.key # key} \cup {Entry(key, choice)}

MapHas(m, key) == \E e \in m : e.key = key

MapGet(m, key) == (CHOOSE e \in m : e.key = key).choice

MapKeys(m) == {e.key : e \in m}

EmptyFn == [x \in {} |-> GoNil]

NoPanic == [msg |-> "", names |-> <<>>, arg |-> -1]

Panic(msg, names, arg) == [msg |-> msg, names |-> names, arg |-> arg]

\* A variant that ignores the json tag and always answers the Go name.
jsonFieldNameUntagged(f) == f.name

jsonFieldName(f) ==
  IF (f.tagName # "" \/ f.tagOpts # "") /\ f.tagName # "" THEN f.tagName ELSE f.name

\* The loop of constFields over reflect.VisibleFields(t), from field i on.
RECURSIVE constFieldsFrom(_, _, _, _, _)
constFieldsFrom(t0, fs, i, fields, memo) ==
  IF i > Len(fs) THEN [panic |-> NoPanic, fields |-> fields, memo |-> memo]
  ELSE LET f == fs[i]
       IN IF ~f.exported \/ f.ftype # "const"
          THEN constFieldsFrom(t0, fs, i + 1, fields, memo)
          ELSE LET name == jsonFieldName(f)
               IN IF name \in DOMAIN fields
                  THEN [panic |-> Panic("multiple fields with JSON name", <<name>>, -1), fields |-> fields, memo |-> memo]
                  ELSE The({IF v.panic # ""
                            THEN [panic |-> Panic(v.panic, <<name>>, -1), fields |-> fields, memo |-> v.memo]
                            ELSE constFieldsFrom(t0, fs, i + 1, (name :> v.val) @@ fields, v.memo)
                          : v \in {constValue(f.const, memo)}})

\* A variant of constFields that finds no fields in a type that is not a
\* struct instead of panicking.
constFieldsLenient(choice, memo) ==
  IF choice.type.kind # "struct"
  THEN [panic |-> NoPanic, fields |-> EmptyFn, memo |-> memo]
  ELSE constFieldsFrom(choice.type, choice.type.fields, 1, EmptyFn, memo)

\* constFields(reflect.TypeOf(choice)): a pointer type is dereferenced first.
constFields(choice, memo) ==
  IF choice.type.kind # "struct"
  THEN [panic |-> Panic("argument to Structs is not struct or pointer-to-struct", <<>>, -1), fields |-> EmptyFn, memo |-> memo]
  ELSE constFieldsFrom(choice.type, choice.type.fields, 1, EmptyFn, memo)

\* The body of the first loop of determineDiscriminator for one choice:
\* byValue[v] = choice under every wire name of fields.
AddChoice(discrims, fields, choice) ==
  [name \in DOMAIN discrims \cup DOMAIN fields |->
     IF name \in DOMAIN fields
     THEN MapPut(IF name \in DOMAIN discrims THEN discrims[name] ELSE {}, fields[name], choice)
     ELSE discrims[name]]

\* The first loop of determineDiscriminator, from choice i on.
RECURSIVE collectDiscrims(_, _, _, _)
collectDiscrims(cs, i, discrims, memo) ==
  IF i > Len(cs) THEN [panic |-> NoPanic, discrims |-> discrims, memo |-> memo]
  ELSE IF isNil(cs[i])
       THEN [panic |-> Panic("argument is nil but should be concrete implementation", <<>>, i - 1), discrims |-> discrims, memo |-> memo]
       ELSE The({IF cf.panic # NoPanic
                 THEN [panic |-> cf.panic, discrims |-> discrims, memo |-> cf.memo]
                 ELSE collectDiscrims(cs, i + 1, AddChoice(discrims, cf.fields, cs[i]), cf.memo)
               : cf \in {constFields(cs[i], memo)}})

\* A variant of the test below that accepts a wire name as soon as one choice
\* has it.
SelectedByAny(byValue, nchoices) == Cardinality(byValue) >= 1

\* A wire name passes the test of the second loop when its byValue has one
\* entry per choice.
Selected(byValue, nchoices) == Cardinality(byValue) = nchoices

\* The second loop of determineDiscriminator, visiting the wire names in the
\* order `order` (Go leaves the order of a range over a map unspecified).
RECURSIVE selectDiscrim(_, _, _, _, _)
selectDiscrim(discrims, order, i, nchoices, field) ==
  IF i > Len(order) THEN [panic |-> NoPanic, field |-> field]
  ELSE IF ~Selected(discrims[order[i]], nchoices)
       THEN selectDiscrim(discrims, order, i + 1, nchoices, field)
       ELSE IF field # ""
            THEN [panic |-> Panic("ambiguous discriminator fields", <<field, order[i]>>, -1), field |-> field]
            ELSE selectDiscrim(discrims, order, i + 1, nchoices, order[i])

\* slices.Sorted(maps.Keys(discrims)): the names in increasing order.  The
\* model's names are ordered as Go orders these strings.
NameRank(name) ==
  CASE name = "Field1" -> 1 [] name = "Field2" -> 2 [] name = "Field3" -> 3 [] name = "Kind" -> 4
    [] name = "Type" -> 5 [] name = "same" -> 6 [] name = "type" -> 7 [] OTHER -> 8

RECURSIVE SortedNames(_)
SortedNames(names) ==
  IF names = {} THEN <<>>
  ELSE LET least == CHOOSE a \in names : \A b \in names : NameRank(a) <= NameRank(b)
       IN <<least>> \o SortedNames(names \ {least})

\* All the orders a range over a map with these keys can take.
RangeOrders(keys) ==
  {o \in [1..Cardinality(keys) -> keys] : \A a, b \in DOMAIN o : a # b => o[a] # o[b]}

determineDiscriminator(cs, memo, order) ==
  The({IF col.panic # NoPanic
       THEN [panic |-> col.panic, field |-> "", byValue |-> {}, memo |-> col.memo]
       ELSE The({CASE sel.panic # NoPanic -> [panic |-> sel.panic, field |-> "", byValue |-> {}, memo |-> col.memo]
                   [] sel.field = "" ->
                        [panic |-> Panic("cannot determine discriminator from possibles", SortedNames(DOMAIN col.discrims), -1), field |-> "", byValue |-> {}, memo |-> col.memo]
                   [] OTHER -> [panic |-> NoPanic, field |-> sel.field, byValue |-> col.discrims[sel.field], memo |-> col.memo]
                 : sel \in {selectDiscrim(col.discrims, order, 1, Len(cs), "")}})
     : col \in {collectDiscrims(cs, 1, EmptyFn, memo)}})

(***************************************************************************)
(* The external codec on whole values: reading a raw value and decoding it *)
(* into a struct.                                                          *)
(***************************************************************************)
\* A raw text that is not JSON.
JMalformed == [k |-> "malformed", s |-> "", n |-> 0, mem |-> <<>>]

\* Whether two members of an object carry the same name.
DuplicateNames(mem) == \E i, j \in DOMAIN mem : i < j /\ mem[i].name = mem[j].name

\* d.ReadValue(): the next value as raw bytes.  With the decoder's default
\* options a malformed text and an object with a duplicate name are errors.
RECURSIVE ReadValueErr(_)
ReadValueErr(data) ==
  CASE data.k = "malformed" -> "syntax error"
    [] data.k = "object" /\ DuplicateNames(data.mem) -> "duplicate object member name"
    [] data.k = "object" /\ (\E i \in DOMAIN data.mem : ReadValueErr(data.mem[i].val) # "") -> "syntax error"
    [] OTHER -> ""

\* A decoded value of interface type T: a pointer to (form "ptr") or a copy of
\* (form "struct") a struct of the named type, vals holding one Go value per
\* field of the type, unknown the members kept by a `json:",unknown"` field.
Instance(form, type, vals, unknown) == [form |-> form, type |-> type, vals |-> vals, unknown |-> unknown]

\* The nil interface value.
NilInstance == Instance("nil", "", <<>>, <<>>)

\* reflect.New(t): a pointer to the zero struct.  A Const field is an empty
\* struct; it is written as GoNil.
ZeroField(f) == IF f.ftype = "string" THEN ZeroOf("string") ELSE GoNil

NewStruct(t) == Instance("ptr", t.name, [i \in DOMAIN t.fields |-> ZeroField(t.fields[i])], <<>>)

\* The index of the exported field of t whose JSON name is name, 0 if none.
\* The `unknown` field is not addressed by name.
FieldIndex(t, name) ==
  LET hits == {i \in DOMAIN t.fields : t.fields[i].exported /\ t.fields[i].tagOpts # "unknown" /\ jsonFieldName(t.fields[i]) = name}
  IN IF hits = {} THEN 0 ELSE CHOOSE i \in hits : TRUE

HasUnknownField(t) == \E i \in DOMAIN t.fields : t.fields[i].tagOpts = "unknown"

\* The codec refuses a struct type in which two exported fields have the same
\* JSON name.
ConflictingNames(t) ==
  \E i, j \in DOMAIN t.fields :
     /\ i # j /\ t.fields[i].exported /\ t.fields[j].exported
     /\ t.fields[i].tagOpts # "unknown" /\ t.fields[j].tagOpts # "unknown"
     /\ jsonFieldName(t.fields[i]) = jsonFieldName(t.fields[j])

\* The codec's loop over the members of an object decoded into a struct of
\* type t, from member i on: a Const field goes through its UnmarshalJSON, a
\* string field through the scalar decode, a member naming no field is kept
\* by the `unknown` field if there is one and dropped otherwise.  The first
\* error ends the decode.
RECURSIVE unmarshalMembers(_, _, _, _, _)
unmarshalMembers(t, mem, i, inst, memo) ==
  IF i > Len(mem) THEN [panic |-> "", err |-> "", inst |-> inst, memo |-> memo]
  ELSE LET m == mem[i]
           fi == FieldIndex(t, m.name)
       IN CASE fi = 0 /\ HasUnknownField(t) ->
                 unmarshalMembers(t, mem, i + 1, [inst EXCEPT !.unknown = Append(@, m)], memo)
            [] fi = 0 -> unmarshalMembers(t, mem, i + 1, inst, memo)
            [] t.fields[fi].ftype = "const" ->
                 The({IF u.panic # "" \/ u.err # ""
                      THEN [panic |-> u.panic, err |-> u.err, inst |-> inst, memo |-> u.memo]
                      ELSE unmarshalMembers(t, mem, i + 1, inst, u.memo)
                    : u \in {UnmarshalJSON(t.fields[fi].const, m.val, memo)}})
            [] OTHER ->
                 The({IF d.err # ""
                      THEN [panic |-> "", err |-> d.err, inst |-> inst, memo |-> memo]
                      ELSE unmarshalMembers(t, mem, i + 1, [inst EXCEPT !.vals[fi] = d.val], memo)
                    : d \in {UnmarshalScalar(t.fields[fi].ftype, m.val)}})

\* json.Unmarshal(raw, zero) for zero a pointer to a fresh struct of type t.
UnmarshalStruct(t, raw, memo) ==
  CASE ReadValueErr(raw) # "" -> [panic |-> "", err |-> ReadValueErr(raw), inst |-> NewStruct(t), memo |-> memo]
    [] raw.k = "null" -> [panic |-> "", err |-> "", inst |-> NewStruct(t), memo |-> memo]
    [] raw.k # "object" -> [panic |-> "", err |-> "cannot unmarshal JSON " \o raw.k \o " into Go struct", inst |-> NewStruct(t), memo |-> memo]
    [] ConflictingNames(t) -> [panic |-> "", err |-> "Go struct fields conflict over JSON object name", inst |-> NewStruct(t), memo |-> memo]
    [] OTHER -> unmarshalMembers(t, raw.mem, 1, NewStruct(t), memo)

(***************************************************************************)
(* fieldValue: the scan for the discriminator member.                      *)
(***************************************************************************)
\* A variant of the loop below that gives up after the first member.
fieldValueFirst(mem, i, fieldName) ==
  IF Len(mem) = 0 \/ mem[1].name # fieldName
  THEN [err |-> "discriminator field not found", val |-> GoNil]
  ELSE [err |-> "", val |-> UnmarshalAny(mem[1].val)]

\* The loop of fieldValue over the members of the object, from member i on.
RECURSIVE fieldValueFrom(_, _, _)
fieldValueFrom(mem, i, fieldName) ==
  IF i > Len(mem) THEN [err |-> "discriminator field not found", val |-> GoNil]
  ELSE IF mem[i].name # fieldName
       THEN fieldValueFrom(mem, i + 1, fieldName)
       ELSE [err |-> "", val |-> UnmarshalAny(mem[i].val)]

fieldValue(data, fieldName) ==
  CASE data.k = "malformed" -> [err |-> "syntax error", val |-> GoNil]
    [] data.k # "object" -> [err |-> "expected object", val |-> GoNil]
    [] OTHER -> fieldValueFrom(data.mem, 1, fieldName)

(***************************************************************************)
(* fieldValue on the token stream of jsontext.Decoder: ReadToken,          *)
(* SkipValue and json.UnmarshalDecode move a position in the tokens of the *)
(* raw text.                                                               *)
(***************************************************************************)
\* An array with elements: they are kept as members without a name.
JArrayOf(elems) == [k |-> "array", s |-> "", n |-> 0, mem |-> [i \in DOMAIN elems |-> Member("", elems[i])]]

\* A token, with the kind jsontext gives it: '{' '}' '[' ']' for the
\* delimiters, '"' for a string or a member name, '0' for a number, 't', 'f',
\* 'n' for the literals; "invalid" stands for bytes that are no token.
Token(kind, text, num) == [kind |-> kind, s |-> text, n |-> num]

\* The tokens of a text, in the order the decoder reads them.
RECURSIVE Tokenize(_), MemberTokens(_, _)
Tokenize(data) ==
  CASE data.k = "object" -> <<Token("{", "", 0)>> \o MemberTokens(data.mem, 1) \o <<Token("}", "", 0)>>
    [] data.k = "array" -> <<Token("[", "", 0)>> \o MemberTokens(data.mem, 1) \o <<Token("]", "", 0)>>
    [] data.k = "string" -> <<Token("\"", data.s, 0)>>
    [] data.k = "number" -> <<Token("0", "", data.n)>>
    [] data.k = "bool" -> <<Token(IF data.n = 1 THEN "t" ELSE "f", "", 0)>>
    [] data.k = "null" -> <<Token("n", "", 0)>>
    [] OTHER -> <<Token("invalid", "", 0)>>

MemberTokens(mem, i) ==
  IF i > Len(mem) THEN <<>>
  ELSE (IF mem[i].name = "" THEN <<>> ELSE <<Token("\"", mem[i].name, 0)>>)
       \o Tokenize(mem[i].val) \o MemberTokens(mem, i + 1)

\* The position after the value that starts at position i, whatever it
\* holds: the token itself, or everything up to the matching close.
RECURSIVE SkipFrom(_, _, _)
SkipFrom(toks, i, depth) ==
  IF i > Len(toks) THEN [err |-> "unexpected EOF", next |-> i]
  ELSE IF toks[i].kind = "invalid" THEN [err |-> "syntax error", next |-> i]
  ELSE LET d == depth + (CASE toks[i].kind \in {"{", "["} -> 1 [] toks[i].kind \in {"}", "]"} -> -1 [] OTHER -> 0)
       IN IF d <= 0 THEN [err |-> "", next |-> i + 1] ELSE SkipFrom(toks, i + 1, d)

\* A variant of the skip below that steps over one token only.
SkipToken(toks, i) ==
  IF i > Len(toks) THEN [err |-> "unexpected EOF", next |-> i]
  ELSE IF toks[i].kind = "invalid" THEN [err |-> "syntax error", next |-> i]
  ELSE [err |-> "", next |-> i + 1]

\* d.SkipValue()
SkipValue(toks, i) == SkipFrom(toks, i, 0)

\* The number of members of the object whose first member starts at i.
RECURSIVE CountMembers(_, _)
CountMembers(toks, i) ==
  IF i > Len(toks) \/ toks[i].kind # "\"" THEN 0
  ELSE 1 + CountMembers(toks, SkipFrom(toks, i + 1, 0).next)

\* json.UnmarshalDecode(d, &v) for v of type any, at position i.
UnmarshalDecodeAny(toks, i) ==
  CASE i > Len(toks) -> Decoded("unexpected EOF", GoNil)
    [] toks[i].kind = "\"" -> Decoded("", GoVal("string", toks[i].s, 0))
    [] toks[i].kind = "0" -> Decoded("", GoVal("float64", "", toks[i].n))
    [] toks[i].kind = "t" -> Decoded("", GoVal("bool", "", 1))
    [] toks[i].kind = "f" -> Decoded("", GoVal("bool", "", 0))
    [] toks[i].kind = "n" -> Decoded("", GoNil)
    [] toks[i].kind = "{" -> Decoded(SkipFrom(toks, i, 0).err, IF SkipFrom(toks, i, 0).err = "" THEN GoVal("map", "", CountMembers(toks, i + 1)) ELSE GoNil)
    [] toks[i].kind = "[" -> Decoded(SkipFrom(toks, i, 0).err, IF SkipFrom(toks, i, 0).err = "" THEN GoVal("slice", "", 0) ELSE GoNil)
    [] OTHER -> Decoded("syntax error", GoNil)

\* The loop of fieldValue, with the decoder at position i inside the object
\* and seen the member names it has read there: the decoder refuses a name
\* it has read before.
RECURSIVE fieldValueLoop(_, _, _, _)
fieldValueLoop(toks, i, fieldName, seen) ==
  CASE i > Len(toks) -> Decoded("unexpected EOF", GoNil)
    [] toks[i].kind = "invalid" -> Decoded("syntax error", GoNil)
    [] toks[i].kind = "}" -> Decoded("discriminator field not found", GoNil)
    [] toks[i].kind # "\"" -> Decoded("unexpected token", GoNil)
    [] toks[i].s \in seen -> Decoded("duplicate object member name", GoNil)
    [] toks[i].s # fieldName ->
         The({IF sk.err # "" THEN Decoded(sk.err, GoNil)
              ELSE fieldValueLoop(toks, sk.next, fieldName, seen \cup {toks[i].s})
            : sk \in {SkipValue(toks, i + 1)}})
    [] OTHER -> UnmarshalDecodeAny(toks, i + 1)

\* fieldValue(data, fieldName), data given by its tokens.
fieldValueTokens(toks, fieldName) ==
  CASE toks[1].kind = "invalid" -> Decoded("syntax error", GoNil)
    [] toks[1].kind # "{" -> Decoded("expected object", GoNil)
    [] OTHER -> fieldValueLoop(toks, 2, fieldName, {})

(***************************************************************************)
(* StructsWithFallback: construction and the two decode closures.          *)
(***************************************************************************)
\* An error returned, or a runtime panic raised, by a decode call: its
\* message, the discriminator value it quotes, and the valid values it lists.
\* maps.Keys returns an iterator function, which %v prints as an address:
\* the message lists none of the keys.
DecodeErr(msg, value) == [msg |-> msg, value |-> value, listed |-> {}]

NoErr == DecodeErr("", GoNil)

\* The result of one call of a decode closure.
Result(how, err, zero, d, memo) == [outcome |-> how, err |-> err, target |-> zero, dst |-> d, memo |-> memo]

\* A variant of the tail below that stores zero in *src before it decodes.
decodeIntoEarly(zero, raw, before, memo) ==
  IF zero.form # "ptr"
  THEN Result("panic", DecodeErr("reflect: Elem of invalid type", GoNil), zero, before, memo)
  ELSE The({CASE u.panic # "" -> Result("panic", DecodeErr(u.panic, GoNil), zero, u.inst, u.memo)
              [] u.err # "" -> Result("error", DecodeErr(u.err, GoNil), zero, u.inst, u.memo)
              [] OTHER -> Result("ok", NoErr, zero, u.inst, u.memo)
            : u \in {UnmarshalStruct(zero.type, raw, memo)}})

\* The tail of both closures: replace zero by a pointer to a fresh struct of
\* its type, decode raw into it and store it in *src.  reflect's Elem panics
\* when the type of zero is not a pointer type.
decodeInto(zero, raw, before, memo) ==
  IF zero.form # "ptr"
  THEN Result("panic", DecodeErr("reflect: Elem of invalid type", GoNil), zero, before, memo)
  ELSE The({CASE u.panic # "" -> Result("panic", DecodeErr(u.panic, GoNil), zero, before, u.memo)
              [] u.err # "" -> Result("error", DecodeErr(u.err, GoNil), zero, before, u.memo)
              [] OTHER -> Result("ok", NoErr, zero, u.inst, u.memo)
            : u \in {UnmarshalStruct(zero.type, raw, memo)}})

\* A variant of the closure below that looks for a member "type" before it
\* decodes.
decodePeeking(fb, raw, before, memo) ==
  IF fieldValue(raw, "type").err # ""
  THEN Result("error", DecodeErr(fieldValue(raw, "type").err, GoNil), NilChoice, before, memo)
  ELSE decodeInto(fb, raw, before, memo)

\* The closure returned when there is no discriminator (a fallback and no
\* choices): json.UnmarshalDecode straight into the fallback.
decodeDirect(fb, raw, before, memo) == decodeInto(fb, raw, before, memo)

\* A variant of the lookup below that never uses the fallback.
lookupWithoutFallback(byValue, hasFallback, fb, discrimValue, raw, before, memo) ==
  CASE discrimValue.t \in {"map", "slice"} ->
         Result("panic", DecodeErr("runtime error: hash of unhashable type", discrimValue), NilChoice, before, memo)
    [] MapHas(byValue, discrimValue) -> decodeInto(MapGet(byValue, discrimValue), raw, before, memo)
    [] OTHER -> Result("error", DecodeErr("unknown discriminator value", discrimValue), NilChoice, before, memo)

\* The lookup discrimByValue[discrimValue] and what follows it, for a
\* discriminator value that was found.  Indexing a map[any]T with a map or a
\* slice is a runtime panic.
lookupDiscrim(byValue, hasFallback, fb, discrimValue, raw, before, memo) ==
  CASE discrimValue.t \in {"map", "slice"} ->
         Result("panic", DecodeErr("runtime error: hash of unhashable type", discrimValue), NilChoice, before, memo)
    [] MapHas(byValue, discrimValue) -> decodeInto(MapGet(byValue, discrimValue), raw, before, memo)
    [] ~hasFallback -> Result("error", DecodeErr("unknown discriminator value", discrimValue), NilChoice, before, memo)
    [] OTHER -> decodeInto(fb, raw, before, memo)

\* A variant of the closure below that returns the error of fieldValue even
\* when there is a fallback.
decodeDiscrimStrict(field, byValue, fb, raw, before, memo) ==
  IF ReadValueErr(raw) # ""
  THEN Result("error", DecodeErr(ReadValueErr(raw), GoNil), NilChoice, before, memo)
  ELSE The({CASE fv.err # "" -> Result("error", DecodeErr(fv.err, GoNil), NilChoice, before, memo)
              [] OTHER -> lookupDiscrim(byValue, ~isNil(fb), fb, fv.val, raw, before, memo)
            : fv \in {fieldValue(raw, field)}})

\* The closure returned when a discriminator was determined.
decodeDiscrim(field, byValue, fb, raw, before, memo) ==
  LET hasFallback == ~isNil(fb)
  IN IF ReadValueErr(raw) # ""
     THEN Result("error", DecodeErr(ReadValueErr(raw), GoNil), NilChoice, before, memo)
     ELSE The({CASE fv.err # "" /\ ~hasFallback -> Result("error", DecodeErr(fv.err, GoNil), NilChoice, before, memo)
                 [] fv.err # "" -> decodeInto(fb, raw, before, memo)
                 [] OTHER -> lookupDiscrim(byValue, hasFallback, fb, fv.val, raw, before, memo)
               : fv \in {fieldValue(raw, field)}})

(***************************************************************************)
(* The heap: the structs that pointers refer to.  An address is a positive *)
(* number, 0 is the nil pointer.                                           *)
(***************************************************************************)
NoHeap == [a \in {} |-> NilInstance]

\* The pointers a caller holds: one per choice, the fallback, and the
\* results of the decode calls made so far.
Refs(cs, fb, rs) == [choices |-> cs, fallback |-> fb, results |-> rs]

NoRefs == Refs(<<>>, 0, <<>>)

\* A variant of the allocation below that hands back the struct zero points
\* to, when it points to one.
reflectNewInPlace(h, zero, t) ==
  IF zero # 0 THEN [addr |-> zero, heap |-> [h EXCEPT ![zero] = NewStruct(t)]]
  ELSE LET a == CHOOSE n \in 1..(Cardinality(DOMAIN h) + 1) : n \notin DOMAIN h
       IN [addr |-> a, heap |-> [x \in DOMAIN h \cup {a} |-> IF x = a THEN NewStruct(t) ELSE h[x]]]

\* reflect.New(reflect.TypeOf(zero).Elem()): a pointer to a new zero struct
\* of the type zero points to, at an address not in use.
reflectNew(h, zero, t) ==
  LET a == CHOOSE n \in 1..(Cardinality(DOMAIN h) + 1) : n \notin DOMAIN h
  IN [addr |-> a, heap |-> [x \in DOMAIN h \cup {a} |-> IF x = a THEN NewStruct(t) ELSE h[x]]]

(***************************************************************************)
(* Goroutines inside Value(): the position of each in the body of Value,   *)
(* the Const it was called on, and its local variables.                    *)
(***************************************************************************)
Goroutines == 1..MaxGoroutines

\* pc is "idle" outside Value(), "load" before constByType.Load, "make"
\* before makeConstInfo, "store" before LoadOrStore, "assert" before the type
\* assertion on info0, "done" after a return and "panicked" after a panic.
Goroutine(pc, c, mk, info0, ret, panic) == [pc |-> pc, c |-> c, mk |-> mk, info0 |-> info0, ret |-> ret, panic |-> panic]

Idle == Goroutine("idle", NoConst, NoInfo, NoInfo, GoNil, "")

\* &constInfo[T]{...}: the info allocated by goroutine g.
Allocated(info, g) == [valueType |-> info.valueType, value |-> info.value, by |-> g]

(***************************************************************************)
(* The state machine: one construction, then decode calls.                 *)
(***************************************************************************)
\* The values a caller passes as choices, and as fallback.
Candidates == {Ptr(Dog), Val(Dog), Ptr(Cat), Val(Cat), Ptr(Car), Ptr(Answer), Ptr(Flag), Ptr(NoDiscrim1), Ptr(Ambig1), Ptr(Ambig2), Ptr(Ambig3), Val(DuplicateJSON), Ptr(WithUnexported), Ptr(DuplicateMixed), NilChoice, Val(NotStruct)}

Fallbacks == {NilChoice, Ptr(OtherAnimal)}

ChoiceLists == UNION {[1..n -> Candidates] : n \in 0..MaxChoices}

\* The identity structs of the Const types in use: the keys of the memo.
ConstsOf(t) == {t.fields[i].const : i \in {j \in DOMAIN t.fields : t.fields[j].ftype = "const"}}

\* Const types with a defect: T disagrees with the field of S (S being the
\* identity struct of the string constant foo), a literal that is not JSON,
\* a field with no const tag.
BadTypeConst == Const("int", IdStruct("string", "foo"))

BadTagConst == Const("int", IdStruct("int", "foo"))

NoTagConst == Const("string", [kind |-> "struct", nfields |-> 1, ftype |-> "string", hasTag |-> FALSE, tag |-> ""])

\* The Const types whose methods are called directly.
Consts == {Const("string", IdStruct("string", "foo")), Const("string", IdStruct("string", "42")), Const("int", IdStruct("int", "42")), Const("bool", IdStruct("bool", "true")), Const("bool", IdStruct("bool", "false")), BadTypeConst, BadTagConst, NoTagConst}

IdStructs == {c.S : c \in Consts \cup UNION {ConstsOf(x.type) : x \in Candidates \cup Fallbacks}}

\* The members an input object is made of, and the inputs of a decode call.
TypeValues == {JString("dog"), JString("cat"), JString("fox"), JNumber(42), JBool(TRUE), JNull, JArray, JObject(<<Member("type", JString("dog"))>>)}

Members == {Member("type", v) : v \in TypeValues} \cup {Member("Bark", JString("woof")), Member("Bark", JNumber(42)), Member("A", JBool(TRUE))}

Inputs == {JObject(mem) : mem \in UNION {[1..n -> Members] : n \in 0..MaxMembers}} \cup {JArray, JNull, JString("dog"), JMalformed}

NoInput == [k |-> "", s |-> "", n |-> 0, mem |-> <<>>]

\* What the destination may hold when a decode call starts: nothing, or the
\* result of some earlier use.
Stale == Instance("ptr", "Dog", <<GoNil, GoVal("string", "old", 0)>>, <<>>)

Destinations == {NilInstance, Stale}

NoCall == [op |-> "", c |-> NoConst, data |-> NoInput, panic |-> "", err |-> "", val |-> GoNil, out |-> NoInput, got |-> GoNil, want |-> GoNil]

Init ==
  /\ tIsInterface \in BOOLEAN
  /\ fallback \in Fallbacks
  /\ choices \in ChoiceLists
  /\ built = "no"
  /\ panicVal = NoPanic
  /\ discrimField = ""
  /\ discrimByValue = {}
  /\ rangeOrder = <<>>
  /\ constByType = [S \in IdStructs |-> NoInfo]
  /\ input = NoInput
  /\ outcome = "none"
  /\ errMsg = NoErr
  /\ target = NilChoice
  /\ dst = NilInstance
  /\ dstBefore = NilInstance
  /\ call = NoCall
  /\ goroutines = [g \in Goroutines |-> Idle]
  /\ heap = NoHeap
  /\ refs = NoRefs

\* StructsWithFallback(fallback, choices...) up to the choice of the closure;
\* Structs(choices...) is the call with the nil fallback.
\* A variant of the constructor below in which a fallback suppresses the
\* inference whatever the number of choices.
StructsWithFallbackSuppressing(order) ==
  LET hasFallback == ~isNil(fallback)
      dd == determineDiscriminator(choices, constByType, order)
  IN CASE ~tIsInterface -> [panic |-> Panic("type is not an interface type", <<>>, -1), field |-> "", byValue |-> {}, memo |-> constByType]
       [] Len(choices) = 0 /\ ~hasFallback -> [panic |-> Panic("no choices provided to Structs", <<>>, -1), field |-> "", byValue |-> {}, memo |-> constByType]
       [] Len(choices) > 0 /\ ~hasFallback -> dd
       [] OTHER -> [panic |-> NoPanic, field |-> "", byValue |-> {}, memo |-> constByType]

StructsWithFallback(order) ==
  LET hasFallback == ~isNil(fallback)
      dd == determineDiscriminator(choices, constByType, order)
  IN CASE ~tIsInterface -> [panic |-> Panic("type is not an interface type", <<>>, -1), field |-> "", byValue |-> {}, memo |-> constByType]
       [] Len(choices) = 0 /\ ~hasFallback -> [panic |-> Panic("no choices provided to Structs", <<>>, -1), field |-> "", byValue |-> {}, memo |-> constByType]
       [] Len(choices) > 0 -> dd
       [] OTHER -> [panic |-> NoPanic, field |-> "", byValue |-> {}, memo |-> constByType]

Construct ==
  /\ built = "no"
  /\ \E order \in RangeOrders(DOMAIN collectDiscrims(choices, 1, EmptyFn, constByType).discrims) :
       \E r \in {StructsWithFallback(order)} :
          /\ built' = IF r.panic = NoPanic THEN "ok" ELSE "panic"
          /\ panicVal' = r.panic
          /\ discrimField' = r.field
          /\ discrimByValue' = r.byValue
          /\ rangeOrder' = order
          /\ constByType' = r.memo
  /\ UNCHANGED <<tIsInterface, fallback, choices, input, outcome, errMsg, target, dst, dstBefore, call, goroutines, heap, refs>>

\* A variant of the call below in which the closure removes the entry it
\* used from the captured table.
CalledConsuming(raw, before, r) ==
  /\ input' = raw
  /\ dstBefore' = before
  /\ outcome' = r.outcome
  /\ errMsg' = r.err
  /\ target' = r.target
  /\ dst' = r.dst
  /\ constByType' = r.memo
  /\ discrimByValue' = {e \in discrimByValue : e.choice # r.target}
  /\ UNCHANGED <<tIsInterface, fallback, choices, built, panicVal, discrimField, rangeOrder, call, goroutines, heap, refs>>

\* One call of the closure: d holds raw, *src holds before.
Called(raw, before, r) ==
  /\ input' = raw
  /\ dstBefore' = before
  /\ outcome' = r.outcome
  /\ errMsg' = r.err
  /\ target' = r.target
  /\ dst' = r.dst
  /\ constByType' = r.memo
  /\ UNCHANGED <<tIsInterface, fallback, choices, built, panicVal, discrimField, discrimByValue, rangeOrder, call, goroutines, heap, refs>>

DecodeDirect ==
  /\ built = "ok"
  /\ outcome = "none"
  /\ discrimField = ""
  /\ \E raw \in Inputs, before \in Destinations :
       \E r \in {decodeDirect(fallback, raw, before, constByType)} : Called(raw, before, r)

DecodeDiscrim ==
  /\ built = "ok"
  /\ outcome = "none"
  /\ discrimField # ""
  /\ \E raw \in Inputs, before \in Destinations :
       \E r \in {decodeDiscrim(discrimField, discrimByValue, fallback, raw, before, constByType)} : Called(raw, before, r)

\* The caller is done with the result of a call and its destination goes out
\* of scope; the dispatcher and the memo live on for the next call.
Discard ==
  /\ outcome # "none"
  /\ input' = NoInput
  /\ outcome' = "none"
  /\ errMsg' = NoErr
  /\ target' = NilChoice
  /\ dst' = NilInstance
  /\ dstBefore' = NilInstance
  /\ UNCHANGED <<tIsInterface, fallback, choices, built, panicVal, discrimField, discrimByValue, rangeOrder, constByType, call, goroutines, heap, refs>>

Next == Construct \/ DecodeDirect \/ DecodeDiscrim \/ Discard

Spec == Init /\ [][Next]_vars

(***************************************************************************)
(* The Const methods called directly, in any order, on one memo.           *)
(***************************************************************************)
\* The JSON texts handed to UnmarshalJSON.
ConstData == {JString("foo"), JString("bar"), JString("42"), JNumber(42), JNumber(99), JNumber(0), JBool(TRUE), JBool(FALSE), JNull, JArray}

InitConst ==
  /\ tIsInterface = TRUE
  /\ fallback = NilChoice
  /\ choices = <<>>
  /\ built = "no"
  /\ panicVal = NoPanic
  /\ discrimField = ""
  /\ discrimByValue = {}
  /\ rangeOrder = <<>>
  /\ constByType = [S \in IdStructs |-> NoInfo]
  /\ input = NoInput
  /\ outcome = "none"
  /\ errMsg = NoErr
  /\ target = NilChoice
  /\ dst = NilInstance
  /\ dstBefore = NilInstance
  /\ call = NoCall
  /\ goroutines = [g \in Goroutines |-> Idle]
  /\ heap = NoHeap
  /\ refs = NoRefs

ConstCalled(r, memo) ==
  /\ call' = r
  /\ constByType' = memo
  /\ UNCHANGED <<tIsInterface, fallback, choices, built, panicVal, discrimField, discrimByValue, rangeOrder, input, outcome, errMsg, target, dst, dstBefore, goroutines, heap, refs>>

ConstValue ==
  \E c \in Consts : \E v \in {Value(c, constByType)} :
    ConstCalled([NoCall EXCEPT !.op = "Value", !.c = c, !.panic = v.panic, !.val = v.val], v.memo)

ConstMarshalJSON ==
  \E c \in Consts : \E m \in {MarshalJSON(c, constByType)} :
    ConstCalled([NoCall EXCEPT !.op = "MarshalJSON", !.c = c, !.panic = m.panic, !.out = m.out], m.memo)

ConstUnmarshalJSON ==
  \E c \in Consts, data \in ConstData : \E u \in {UnmarshalJSON(c, data, constByType)} :
    ConstCalled([NoCall EXCEPT !.op = "UnmarshalJSON", !.c = c, !.data = data, !.panic = u.panic, !.err = u.err, !.got = u.got, !.want = u.want], u.memo)

NextConst == ConstValue \/ ConstMarshalJSON \/ ConstUnmarshalJSON

SpecConst == InitConst /\ [][NextConst]_vars

(***************************************************************************)
(* Value() called by several goroutines, one statement at a time.  Load    *)
(* and LoadOrStore of the sync.Map are atomic; everything between them is  *)
(* local to the goroutine.                                                 *)
(***************************************************************************)
\* The Const types the goroutines call Value() on: two share the identity
\* struct of the string constant foo (one of them with the wrong T).
ValueConsts == {Const("string", IdStruct("string", "foo")), BadTypeConst, Const("int", IdStruct("int", "42"))}

InitValue ==
  /\ tIsInterface = TRUE
  /\ fallback = NilChoice
  /\ choices = <<>>
  /\ built = "no"
  /\ panicVal = NoPanic
  /\ discrimField = ""
  /\ discrimByValue = {}
  /\ rangeOrder = <<>>
  /\ constByType = [S \in IdStructs |-> NoInfo]
  /\ input = NoInput
  /\ outcome = "none"
  /\ errMsg = NoErr
  /\ target = NilChoice
  /\ dst = NilInstance
  /\ dstBefore = NilInstance
  /\ call = NoCall
  /\ goroutines = [g \in Goroutines |-> Idle]
  /\ heap = NoHeap
  /\ refs = NoRefs

\* Goroutine g moves to state next; the memo becomes memo.
Stepped(g, next, memo) ==
  /\ goroutines' = [goroutines EXCEPT ![g] = next]
  /\ constByType' = memo
  /\ UNCHANGED <<tIsInterface, fallback, choices, built, panicVal, discrimField, discrimByValue, rangeOrder, input, outcome, errMsg, target, dst, dstBefore, call, heap, refs>>

\* v.Value() is called, by user code or by the `return v.Value()` of Value.
ValueCall ==
  \E g \in Goroutines, c \in ValueConsts :
     /\ goroutines[g].pc = "idle"
     /\ Stepped(g, [Idle EXCEPT !.pc = "load", !.c = c], constByType)

\* info0, ok := constByType.Load(structType)
ValueLoad ==
  \E g \in Goroutines :
     /\ goroutines[g].pc = "load"
     /\ Stepped(g, [goroutines[g] EXCEPT !.pc = IF constByType[goroutines[g].c.S] = NoInfo THEN "make" ELSE "assert",
                                         !.info0 = constByType[goroutines[g].c.S]], constByType)

\* v.makeConstInfo()
ValueMake ==
  \E g \in Goroutines :
     /\ goroutines[g].pc = "make"
     /\ \E mk \in {makeConstInfo(goroutines[g].c)} :
          Stepped(g, IF mk.panic # ""
                     THEN [goroutines[g] EXCEPT !.pc = "panicked", !.panic = mk.panic]
                     ELSE [goroutines[g] EXCEPT !.pc = "store", !.mk = Allocated(mk.info, g)], constByType)

\* constByType.LoadOrStore(structType, info); return v.Value()
ValueStore ==
  \E g \in Goroutines :
     /\ goroutines[g].pc = "store"
     /\ Stepped(g, [goroutines[g] EXCEPT !.pc = "load"], LoadOrStore(constByType, goroutines[g].c.S, goroutines[g].mk))

\* info, ok := info0.(*constInfo[T]); panic or return info.value
ValueAssert ==
  \E g \in Goroutines :
     /\ goroutines[g].pc = "assert"
     /\ \E v \in {ValueLoaded(goroutines[g].c, [constByType EXCEPT ![goroutines[g].c.S] = goroutines[g].info0])} :
          Stepped(g, IF v.panic # ""
                     THEN [goroutines[g] EXCEPT !.pc = "panicked", !.panic = v.panic]
                     ELSE [goroutines[g] EXCEPT !.pc = "done", !.ret = v.val], constByType)

\* The caller takes the result (or recovers the panic) and may call again.
ValueReturn ==
  \E g \in Goroutines :
     /\ goroutines[g].pc \in {"done", "panicked"}
     /\ Stepped(g, Idle, constByType)

NextValue == ValueCall \/ ValueLoad \/ ValueMake \/ ValueStore \/ ValueAssert \/ ValueReturn

SpecValue == InitValue /\ [][NextValue]_vars

(***************************************************************************)
(* fieldValue called directly on a text and a field name.                  *)
(***************************************************************************)
\* The values of the members: scalars, and an object and arrays that hold
\* the names looked for one level down.
ScanValues == {JString("dog"), JNumber(42), JObject(<<Member("type", JString("cat"))>>), JArrayOf(<<JObject(<<Member("type", JString("cat"))>>)>>), JArrayOf(<<JString("type"), JString("user")>>)}

ScanMembers == {Member(name, v) : name \in {"type", "user", "A"}, v \in ScanValues}

ScanInputs == {JObject(mem) : mem \in UNION {[1..n -> ScanMembers] : n \in 0..MaxMembers}} \cup {JArrayOf(<<JString("type")>>), JArray, JString("type"), JNumber(42), JNull, JMalformed}

ScanFields == {"type", "user"}

InitScan ==
  /\ tIsInterface = TRUE
  /\ fallback = NilChoice
  /\ choices = <<>>
  /\ built = "no"
  /\ panicVal = NoPanic
  /\ discrimField \in ScanFields
  /\ discrimByValue = {}
  /\ rangeOrder = <<>>
  /\ constByType = [S \in IdStructs |-> NoInfo]
  /\ input \in ScanInputs
  /\ outcome = "none"
  /\ errMsg = NoErr
  /\ target = NilChoice
  /\ dst = NilInstance
  /\ dstBefore = NilInstance
  /\ call = NoCall
  /\ goroutines = [g \in Goroutines |-> Idle]
  /\ heap = NoHeap
  /\ refs = NoRefs

ScanFieldValue ==
  /\ call = NoCall
  /\ \E r \in {fieldValueTokens(Tokenize(input), discrimField)} :
       call' = [NoCall EXCEPT !.op = "fieldValue", !.data = input, !.err = r.err, !.val = r.val]
  /\ UNCHANGED <<tIsInterface, fallback, choices, built, panicVal, discrimField, discrimByValue, rangeOrder, constByType, input, outcome, errMsg, target, dst, dstBefore, goroutines, heap, refs>>

NextScan == ScanFieldValue

SpecScan == InitScan /\ [][NextScan]_vars

(***************************************************************************)
(* Decode calls through one dispatcher, with the pointers passed at        *)
(* construction and the results the caller keeps.                          *)
(***************************************************************************)
AllocCandidates == {Ptr(Dog), Ptr(Cat), Val(Dog)}

AllocChoiceLists == UNION {[1..n -> AllocCandidates] : n \in 0..MaxChoices}

AllocInputs == {JObject(<<Member("type", JString("dog")), Member("Bark", JString("woof"))>>), JObject(<<Member("type", JString("cat"))>>), JObject(<<Member("type", JString("fox"))>>), JObject(<<>>), JArray}

\* The pointers a caller can pass for these choices and this fallback:
\* choice i is a nil pointer such as (*Dog)(nil) or points to a struct of
\* its own at address i such as &Dog{}; a struct value is no pointer.
PassedRefs(cs, fb) ==
  {Refs(pc, pf, <<>>) :
     pc \in {q \in [DOMAIN cs -> 0..Len(cs)] : \A i \in DOMAIN cs : q[i] \in (IF cs[i].form = "ptr" THEN {0, i} ELSE {0})},
     pf \in (IF fb.form = "ptr" THEN {0, Len(cs) + 1} ELSE {0})}

\* The addresses among the pointers passed.
PassedAddrs(r) == ({r.choices[i] : i \in DOMAIN r.choices} \cup {r.fallback}) \ {0}

\* The type of the struct a passed address holds.
PassedType(r, a) == IF a = r.fallback THEN fallback.type ELSE choices[CHOOSE i \in DOMAIN r.choices : r.choices[i] = a].type

\* The pointer that zero holds when it is the chosen value.
AddrOf(zero) ==
  CASE isNil(zero) -> 0
    [] zero = fallback -> refs.fallback
    [] \E i \in DOMAIN choices : choices[i] = zero -> refs.choices[CHOOSE i \in DOMAIN choices : choices[i] = zero]
    [] OTHER -> 0

InitAlloc ==
  /\ tIsInterface = TRUE
  /\ fallback \in Fallbacks
  /\ choices \in AllocChoiceLists
  /\ built = "no"
  /\ panicVal = NoPanic
  /\ discrimField = ""
  /\ discrimByValue = {}
  /\ rangeOrder = <<>>
  /\ constByType = [S \in IdStructs |-> NoInfo]
  /\ input = NoInput
  /\ outcome = "none"
  /\ errMsg = NoErr
  /\ target = NilChoice
  /\ dst = NilInstance
  /\ dstBefore = NilInstance
  /\ call = NoCall
  /\ goroutines = [g \in Goroutines |-> Idle]
  /\ refs \in PassedRefs(choices, fallback)
  /\ heap = [a \in PassedAddrs(refs) |-> NewStruct(PassedType(refs, a))]

\* One call of the decode closure: the chosen value is replaced by a new
\* struct, the text is decoded into it, and on success it is stored in *src,
\* which the caller keeps.  The struct of a call that fails is garbage.
AllocDecode ==
  /\ built = "ok"
  /\ Len(refs.results) < MaxResults
  /\ \E raw \in AllocInputs :
       \E r \in {IF discrimField = "" THEN decodeDirect(fallback, raw, dst, constByType)
                                     ELSE decodeDiscrim(discrimField, discrimByValue, fallback, raw, dst, constByType)} :
          \E n \in {reflectNew(heap, AddrOf(r.target), r.target.type)} :
             /\ input' = raw
             /\ dstBefore' = dst
             /\ outcome' = r.outcome
             /\ errMsg' = r.err
             /\ target' = r.target
             /\ dst' = r.dst
             /\ constByType' = r.memo
             /\ heap' = IF r.outcome = "ok" THEN [n.heap EXCEPT ![n.addr] = r.dst] ELSE heap
             /\ refs' = IF r.outcome = "ok" THEN [refs EXCEPT !.results = Append(@, n.addr)] ELSE refs
  /\ UNCHANGED <<tIsInterface, fallback, choices, built, panicVal, discrimField, discrimByValue, rangeOrder, call, goroutines>>

NextAlloc == Construct \/ AllocDecode

SpecAlloc == InitAlloc /\ [][NextAlloc]_vars

(***************************************************************************)
(* Vocabulary of the properties, read off the declarations of the types    *)
(* and off the input text rather than computed by the code above.          *)
(***************************************************************************)
\* The wire name of a field: its json tag name if it has one, else its Go name.
WireName(f) == IF f.tagName # "" THEN f.tagName ELSE f.name

\* The constant a Const type declares, as a Go value of type T.
DeclaredValue(c) ==
  CASE c.T = "string" -> GoVal("string", c.S.tag, 0)
    [] c.T = "int" -> GoVal("int", "", IF c.S.tag = "42" THEN 42 ELSE 0)
    [] OTHER -> GoVal("bool", "", IF c.S.tag = "true" THEN 1 ELSE 0)

\* The same constant as the JSON scalar it is written as on the wire.
DeclaredJSON(c) ==
  CASE c.T = "string" -> JString(c.S.tag)
    [] c.T = "int" -> JNumber(IF c.S.tag = "42" THEN 42 ELSE 0)
    [] OTHER -> JBool(c.S.tag = "true")

\* A Const type that satisfies the documented requirements on T and S.
ValidConst(c) ==
  /\ c.S.kind = "struct" /\ c.S.nfields = 1 /\ c.S.ftype = c.T /\ c.S.hasTag
  /\ \/ c.T = "string"
     \/ c.T = "int" /\ c.S.tag \in {"42", "0"}
     \/ c.T = "bool" /\ c.S.tag \in {"true", "false"}

\* The exported Const fields of a choice.
ConstFieldsOf(x) == {i \in DOMAIN x.type.fields : x.type.fields[i].exported /\ x.type.fields[i].ftype = "const"}

\* A choice construction accepts: a struct or a pointer to a struct, whose
\* exported Const fields are valid and have distinct wire names.
WellFormedChoice(x) ==
  /\ x.form \in {"ptr", "struct"}
  /\ \A i \in ConstFieldsOf(x) : ValidConst(x.type.fields[i].const)
  /\ \A i, j \in ConstFieldsOf(x) : i # j => WireName(x.type.fields[i]) # WireName(x.type.fields[j])

WellFormedChoices == \A i \in DOMAIN choices : WellFormedChoice(choices[i])

HasConst(x, w) == \E i \in ConstFieldsOf(x) : WireName(x.type.fields[i]) = w

ConstAt(x, w) == x.type.fields[CHOOSE i \in ConstFieldsOf(x) : WireName(x.type.fields[i]) = w].const

\* Every Const-bearing wire name of the choices.
ConstWireNames == UNION {{WireName(choices[i].type.fields[k]) : k \in ConstFieldsOf(choices[i])} : i \in DOMAIN choices}

\* A wire name qualifies when it is a Const field in every choice and the
\* constants are pairwise distinct.
Qualifies(w) ==
  /\ \A i \in DOMAIN choices : HasConst(choices[i], w)
  /\ \A i, j \in DOMAIN choices : i # j => DeclaredValue(ConstAt(choices[i], w)) # DeclaredValue(ConstAt(choices[j], w))

Qualifying == {w \in ConstWireNames : Qualifies(w)}

\* Construction was called on choices it accepts one by one.
Inferred == built # "no" /\ tIsInterface /\ Len(choices) > 0 /\ WellFormedChoices

(***************************************************************************)
(* C2.  When exactly one wire name is a Const field in every choice with   *)
(* pairwise-distinct constants, construction succeeds with that wire name  *)
(* as the discriminator and a table that is a bijection: it has one entry *)
(* per choice, and each choice is stored under its own constant and under  *)
(* no other key.                                                           *)
(***************************************************************************)
C2_InferenceBijective ==
  (Inferred /\ Cardinality(Qualifying) = 1) =>
     /\ built = "ok"
     /\ discrimField \in Qualifying
     /\ Cardinality(discrimByValue) = Len(choices)
     /\ \A i \in DOMAIN choices :
          \A e \in discrimByValue :
             (e.key = DeclaredValue(ConstAt(choices[i], discrimField))) <=> (e.choice = choices[i])
     /\ \A i \in DOMAIN choices : \E e \in discrimByValue : e.choice = choices[i]

\* Two choices, given as a pointer and as a struct, with one shared wire
\* name: construction has run and produced a two-entry table.
C2_Witness ==
  /\ built = "ok"
  /\ Len(choices) = 2
  /\ Cardinality(Qualifying) = 1
  /\ discrimField = "type"
  /\ Cardinality(discrimByValue) = 2

C3_WitnessNone ==
  /\ built = "panic" /\ isNil(fallback) /\ Inferred
  /\ Len(choices) = 2
  /\ Qualifying = {}
  /\ Cardinality(ConstWireNames) = 2

Dispatched == built = "ok" /\ discrimField # "" /\ outcome # "none"

\* The input of the call is a well-formed JSON object.
ObjectInput == input.k = "object" /\ ~DuplicateNames(input.mem)

HasMember(j, w) == \E i \in DOMAIN j.mem : j.mem[i].name = w

MemberValue(j, w) == j.mem[CHOOSE i \in DOMAIN j.mem : j.mem[i].name = w].val

\* The members of the object can be stored in a struct of type t: a member
\* naming a string field holds a string, or null, which sets nothing.
Fits(j, t) ==
  \A i \in DOMAIN j.mem : \A k \in DOMAIN t.fields :
     (t.fields[k].ftype = "string" /\ WireName(t.fields[k]) = j.mem[i].name) => j.mem[i].val.k \in {"string", "null"}

\* The instance holds, in every string field the object has a string member
\* for, the string of that member.
Populated(inst, j, t) ==
  /\ inst.type = t.name
  /\ \A i \in DOMAIN j.mem : \A k \in DOMAIN t.fields :
       (t.fields[k].ftype = "string" /\ WireName(t.fields[k]) = j.mem[i].name /\ j.mem[i].val.k = "string") =>
          inst.vals[k] = GoVal("string", j.mem[i].val.s, 0)

\* The members of the object that name no field of t, in their order.
Unmatched(j, t) ==
  SelectSeq(j.mem, LAMBDA m : \A k \in DOMAIN t.fields : t.fields[k].tagOpts = "unknown" \/ WireName(t.fields[k]) # m.name)

(***************************************************************************)
(* C1.  Through a dispatcher with discriminator F, an object whose member  *)
(* F equals the constant of choice c (and whose other members c's type can *)
(* hold) decodes successfully into an instance of c's concrete type, a     *)
(* struct for a struct choice and a pointer for a pointer choice,          *)
(* populated from the members of the object.                               *)
(***************************************************************************)
C1_DispatchToCandidate ==
  \A i \in DOMAIN choices :
     ( /\ Dispatched /\ ObjectInput
       /\ HasMember(input, discrimField)
       /\ MemberValue(input, discrimField) = DeclaredJSON(ConstAt(choices[i], discrimField))
       /\ Fits(input, choices[i].type) ) =>
          /\ outcome = "ok"
          /\ target = choices[i]
          /\ dst.form = choices[i].form
          /\ Populated(dst, input, choices[i].type)

(***************************************************************************)
(* C4.  When the object has a member F whose scalar value is not a key of  *)
(* the table: without a fallback the call returns the error "unknown       *)
(* discriminator value" quoting that value; with a fallback the whole      *)
(* object is decoded into the fallback type, and if that type can hold its *)
(* members the call succeeds with an instance of the fallback type that    *)
(* retains, in order, every member naming none of its fields.              *)
(***************************************************************************)
UnknownValue ==
  /\ Dispatched /\ ObjectInput
  /\ HasMember(input, discrimField)
  /\ MemberValue(input, discrimField).k \in {"string", "number", "bool", "null"}
  /\ UnmarshalAny(MemberValue(input, discrimField)) \notin MapKeys(discrimByValue)

C4_WitnessNoFallback ==
  /\ UnknownValue /\ isNil(fallback)
  /\ errMsg.msg = "unknown discriminator value"

(***************************************************************************)
(* C5.  When the object has no member F: without a fallback the call       *)
(* returns the error "discriminator field not found"; with a fallback the  *)
(* whole object is decoded into an instance of the fallback type.          *)
(***************************************************************************)
MissingField == Dispatched /\ ObjectInput /\ ~HasMember(input, discrimField)

C5_WitnessNoFallback ==
  /\ MissingField /\ isNil(fallback)
  /\ Len(input.mem) > 0
  /\ errMsg.msg = "discriminator field not found"

(***************************************************************************)
(* C6.  The result of a decode call does not depend on the position of the *)
(* discriminator member: decoding any permutation of the members of the    *)
(* input object ends the same way and selects the same target, and when    *)
(* the target is a choice it produces an equal instance.                   *)
(***************************************************************************)
MemberOrders(s) ==
  {[i \in 1..Len(s) |-> s[p[i]]] : p \in {q \in [1..Len(s) -> 1..Len(s)] : \A a, b \in 1..Len(s) : q[a] = q[b] => a = b}}

Redecoded(mem) == decodeDiscrim(discrimField, discrimByValue, fallback, JObject(mem), dstBefore, constByType)

InstancesOf(x) ==
  {Instance(x.form, x.type.name, vals, <<>>) :
     vals \in {v \in [DOMAIN x.type.fields -> {GoNil, GoVal("string", "", 0), GoVal("string", "woof", 0)}] :
                 \A k \in DOMAIN x.type.fields : (v[k] = GoNil) <=> (x.type.fields[k].ftype # "string")}}

\* json.Marshal of an instance: its exported fields in declaration order.
Marshalled(inst, t) ==
  LET exported == SelectSeq([k \in DOMAIN t.fields |-> k], LAMBDA k : t.fields[k].exported)
  IN JObject([n \in DOMAIN exported |->
                Member(WireName(t.fields[exported[n]]),
                       IF t.fields[exported[n]].ftype = "const"
                       THEN DeclaredJSON(t.fields[exported[n]].const)
                       ELSE JString(inst.vals[exported[n]].s))])

C7_RoundTrip ==
  \A i \in DOMAIN choices : \A x \in InstancesOf(choices[i]) :
     (Dispatched /\ WellFormedChoice(choices[i]) /\ input = Marshalled(x, choices[i].type)) =>
        /\ outcome = "ok"
        /\ dst = x

(***************************************************************************)
(* C8.  A dispatcher built with a fallback and no choices decodes every    *)
(* input directly into the fallback type: the call never panics and never  *)
(* returns "unknown discriminator value" or "discriminator field not       *)
(* found", its target is the fallback, and it succeeds exactly when the    *)
(* input is null or an object the fallback type can hold, giving a fresh   *)
(* instance of the fallback type filled from the object.                   *)
(***************************************************************************)
Passthrough == built = "ok" /\ Len(choices) = 0 /\ outcome # "none"

DecodesAs(data, T) ==
  \/ data.k = "null"
  \/ T = "string" /\ data.k = "string"
  \/ T = "int" /\ data.k = "number"
  \/ T = "bool" /\ data.k = "bool"

TextValue(data, T) ==
  CASE T = "string" -> GoVal("string", IF data.k = "null" THEN "" ELSE data.s, 0)
    [] T = "int" -> GoVal("int", "", IF data.k = "null" THEN 0 ELSE data.n)
    [] OTHER -> GoVal("bool", "", IF data.k = "null" THEN 0 ELSE data.n)

UnmarshalCalled == call.op = "UnmarshalJSON" /\ ValidConst(call.c)

C9_UnmarshalChecksValue ==
  UnmarshalCalled =>
     /\ call.panic = ""
     /\ (call.err = "") <=> (DecodesAs(call.data, call.c.T) /\ TextValue(call.data, call.c.T) = DeclaredValue(call.c))
     /\ (DecodesAs(call.data, call.c.T) /\ TextValue(call.data, call.c.T) # DeclaredValue(call.c)) =>
           /\ call.err = "unexpected const value"
           /\ call.got = TextValue(call.data, call.c.T)
           /\ call.want = DeclaredValue(call.c)

\* The number 99 given to the Const of the number 42.
C9_Witness ==
  /\ UnmarshalCalled
  /\ call.c.T = "int"
  /\ call.data = JNumber(99)
  /\ call.err = "unexpected const value"
  /\ call.got = GoVal("int", "", 99)
  /\ call.want = GoVal("int", "", 42)

C9_WitnessAccepted == UnmarshalCalled /\ call.c.T = "bool" /\ call.data = JBool(TRUE) /\ call.err = ""

\* null decodes as false, the constant of this Const type.
C9_WitnessNull == UnmarshalCalled /\ call.data = JNull /\ DeclaredValue(call.c) = GoVal("bool", "", 0) /\ call.err = ""

(***************************************************************************)
(* C10.  For a valid Const type, MarshalJSON returns the JSON encoding of  *)
(* the declared constant, whatever calls were made before on this or any   *)
(* other Const type.                                                       *)
(***************************************************************************)
MarshalCalled == call.op = "MarshalJSON" /\ ValidConst(call.c)

C10_MarshalIsConstant ==
  MarshalCalled => (call.panic = "" /\ call.out = DeclaredJSON(call.c))

\* The Const of the number 42 marshalled when the memo already holds its
\* value and the value of another Const type.
C10_Witness ==
  /\ MarshalCalled
  /\ call.c.T = "int"
  /\ call.out = JNumber(42)
  /\ Cardinality({S \in DOMAIN constByType : constByType[S] # NoInfo}) >= 2

(***************************************************************************)
(* C11.  The memo is insert-if-absent.  In every interleaving of Value()   *)
(* calls by the goroutines, an entry of constByType, once present, is      *)
(* never replaced or removed, and every Value() call that returns, returns *)
(* the value of the entry stored for its S (the first one stored), which   *)
(* is the declared constant.                                               *)
(***************************************************************************)
EntriesKept == \A S \in DOMAIN constByType : constByType[S] # NoInfo => constByType'[S] = constByType[S]

ReturnsStored ==
  \A g \in Goroutines :
     goroutines[g].pc = "done" =>
        /\ constByType[goroutines[g].c.S] # NoInfo
        /\ goroutines[g].ret = constByType[goroutines[g].c.S].value
        /\ goroutines[g].ret = DeclaredValue(goroutines[g].c)

C11_MemoInsertIfAbsent == []ReturnsStored /\ [][EntriesKept]_vars

\* A concurrent first access: goroutine g built an info of its own for S,
\* lost the race to the goroutine whose info is stored, and returned the
\* stored value.
C11_Witness ==
  \E g \in Goroutines :
     /\ goroutines[g].pc = "done"
     /\ goroutines[g].mk # NoInfo
     /\ constByType[goroutines[g].c.S].by # g
     /\ goroutines[g].info0 = constByType[goroutines[g].c.S]

(***************************************************************************)
(* C12.  A decode call that returns an error leaves the destination as it  *)
(* was before the call, whatever the error: reading the value, scanning    *)
(* for the discriminator, an unknown discriminator value, or the decode    *)
(* into the chosen type.                                                   *)
(***************************************************************************)
C12_ErrorLeavesDestination ==
  (built = "ok" /\ outcome = "error") => dst = dstBefore

\* The destination held an earlier result; the call chose a candidate and
\* the decode into it failed on a later member.
C12_Witness ==
  /\ built = "ok" /\ outcome = "error"
  /\ \E i \in DOMAIN choices : target = choices[i]
  /\ ObjectInput /\ ~Fits(input, target.type)
  /\ dstBefore = Stale
  /\ dst = Stale

(***************************************************************************)
(* C13.  After construction the discriminator field name, the table and    *)
(* the fallback never change, whatever decode calls are made, and the      *)
(* result of a decode call is the one the same input gives on a dispatcher *)
(* that has never been used: it does not depend on earlier calls.          *)
(***************************************************************************)
DispatcherKept == built = "ok" => UNCHANGED <<discrimField, discrimByValue, fallback, choices, heap, refs>>

\* The memo before any Const was looked at.
EmptyMemo == [S \in IdStructs |-> NoInfo]

FirstUse ==
  IF discrimField = ""
  THEN decodeDirect(fallback, input, dstBefore, EmptyMemo)
  ELSE decodeDiscrim(discrimField, discrimByValue, fallback, input, dstBefore, EmptyMemo)

HistoryFree ==
  (built = "ok" /\ outcome # "none") =>
     \E r \in {FirstUse} : r.outcome = outcome /\ r.err = errMsg /\ r.target = target /\ r.dst = dst

Matches(i) ==
  /\ Dispatched /\ ObjectInput
  /\ HasMember(input, discrimField)
  /\ MemberValue(input, discrimField) = DeclaredJSON(ConstAt(choices[i], discrimField))
  /\ Fits(input, choices[i].type)

(***************************************************************************)
(* C14.  A choice given as a struct value works like one given as a        *)
(* pointer: construction succeeds in both cases, and a call whose          *)
(* discriminator (a string constant) matches the choice succeeds and       *)
(* stores a populated instance of the form of the choice, a struct for a   *)
(* struct and a pointer for a pointer.                                     *)
(***************************************************************************)
C14_StructOrPointer ==
  /\ (Inferred /\ Cardinality(Qualifying) = 1) => built = "ok"
  /\ \A i \in DOMAIN choices :
       (Matches(i) /\ ConstAt(choices[i], discrimField).T = "string") =>
          /\ outcome = "ok"
          /\ dst.form = choices[i].form
          /\ Populated(dst, input, choices[i].type)

(***************************************************************************)
(* C15.  String, number and boolean constants all dispatch: a call on an   *)
(* object whose discriminator member is the JSON scalar equal to the       *)
(* constant of a (pointer) choice selects that choice and succeeds.        *)
(***************************************************************************)
C15_ScalarConstantsDispatch ==
  \A i \in DOMAIN choices :
     (Matches(i) /\ choices[i].form = "ptr") =>
        /\ outcome = "ok"
        /\ target = choices[i]
        /\ dst.type = choices[i].type.name

(***************************************************************************)
(* C16.  Defective arguments are fatal at construction: it panics, and no  *)
(* dispatcher exists, when there are no choices and no fallback, when a    *)
(* choice is a nil interface value, or when the type of a choice is        *)
(* neither a struct nor a pointer to a struct.  The panic is the one of    *)
(* the first defective choice.                                             *)
(***************************************************************************)
NotStructChoice(x) == ~isNil(x) /\ x.type.kind # "struct"

\* The first choice that is nil, not a struct, or otherwise refused.
FirstDefect == CHOOSE i \in DOMAIN choices : ~WellFormedChoice(choices[i]) /\ \A j \in 1..(i - 1) : WellFormedChoice(choices[j])

NoDispatcher == built = "panic" /\ discrimField = "" /\ discrimByValue = {} /\ outcome = "none"

C16_DefectsFatal ==
  (built # "no" /\ tIsInterface) =>
     /\ (Len(choices) = 0 /\ isNil(fallback)) => (NoDispatcher /\ panicVal.msg = "no choices provided to Structs")
     /\ (\E i \in DOMAIN choices : isNil(choices[i]) \/ NotStructChoice(choices[i])) => NoDispatcher
     /\ (~WellFormedChoices /\ isNil(choices[FirstDefect])) =>
           (panicVal.msg = "argument is nil but should be concrete implementation" /\ panicVal.arg = FirstDefect - 1)
     /\ (~WellFormedChoices /\ NotStructChoice(choices[FirstDefect])) =>
           panicVal.msg = "argument to Structs is not struct or pointer-to-struct"

\* A good choice followed by a nil one, with a fallback: the panic names
\* argument 1.
C16_Witness ==
  /\ NoDispatcher /\ tIsInterface
  /\ ~isNil(fallback)
  /\ Len(choices) = 2
  /\ WellFormedChoice(choices[1]) /\ isNil(choices[2])
  /\ panicVal.arg = 1

C16_WitnessNotStruct == NoDispatcher /\ tIsInterface /\ Len(choices) = 1 /\ NotStructChoice(choices[1])

C16_WitnessNoChoices == NoDispatcher /\ tIsInterface /\ Len(choices) = 0 /\ isNil(fallback)

(***************************************************************************)
(* C17.  A decode call never panics: on a dispatcher whose choices are all *)
(* pointers, every input, including an object whose discriminator member   *)
(* holds an object, an array or null, ends in success or a returned error. *)
(***************************************************************************)
PointerChoices == \A i \in DOMAIN choices : choices[i].form = "ptr"

C17_NoDecodePanic ==
  (built = "ok" /\ PointerChoices /\ outcome # "none") => outcome \in {"ok", "error"}

(***************************************************************************)
(* C18.  When the first choice that is not in order is a struct in which   *)
(* two different exported fields have the same wire name, construction     *)
(* panics with "multiple fields with JSON name", whether or not both       *)
(* fields are Const fields.                                                *)
(***************************************************************************)
ExportedFields(x) == {k \in DOMAIN x.type.fields : x.type.fields[k].exported}

DuplicateWireNames(x) ==
  /\ x.form \in {"ptr", "struct"} /\ x.type.kind = "struct"
  /\ \E k, l \in ExportedFields(x) : k # l /\ WireName(x.type.fields[k]) = WireName(x.type.fields[l])

C18_DuplicateWireNames ==
  \A i \in DOMAIN choices :
     ( /\ built # "no" /\ tIsInterface
       /\ DuplicateWireNames(choices[i])
       /\ \A j \in 1..(i - 1) : WellFormedChoice(choices[j]) /\ ~DuplicateWireNames(choices[j]) ) =>
          /\ built = "panic"
          /\ panicVal.msg = "multiple fields with JSON name"

(***************************************************************************)
(* C19.  When two or more wire names qualify, construction panics with     *)
(* "ambiguous discriminator fields" and the panic names all the qualifying *)
(* wire names, however many there are.                                     *)
(***************************************************************************)
C19_AmbiguousNamesAll ==
  (Inferred /\ Cardinality(Qualifying) >= 2) =>
     /\ built = "panic"
     /\ panicVal.msg = "ambiguous discriminator fields"
     /\ {panicVal.names[k] : k \in DOMAIN panicVal.names} = Qualifying

\* The names a panic lists are in strictly increasing string order.
ListedSorted == \A a, b \in DOMAIN panicVal.names : a < b => NameRank(panicVal.names[a]) < NameRank(panicVal.names[b])

(***************************************************************************)
(* C20.  A fallback suppresses the inference only when there are no        *)
(* choices: construction then succeeds without a discriminator.  With one  *)
(* or more choices the inference runs although a fallback is given; when   *)
(* exactly one wire name qualifies it becomes the discriminator, and when  *)
(* none qualifies construction panics with "cannot determine               *)
(* discriminator", listing every wire name of a Const field of any choice, *)
(* each once, in sorted order.                                             *)
(***************************************************************************)
C20_FallbackKeepsInference ==
  (built # "no" /\ tIsInterface /\ ~isNil(fallback)) =>
     /\ Len(choices) = 0 => (built = "ok" /\ discrimField = "" /\ discrimByValue = {})
     /\ (Inferred /\ Cardinality(Qualifying) = 1) => (built = "ok" /\ discrimField \in Qualifying)
     /\ (Inferred /\ Qualifying = {}) =>
          /\ built = "panic"
          /\ panicVal.msg = "cannot determine discriminator from possibles"
          /\ {panicVal.names[k] : k \in DOMAIN panicVal.names} = ConstWireNames
          /\ Len(panicVal.names) = Cardinality(ConstWireNames)
          /\ ListedSorted

\* A fallback and two choices whose Const fields share no wire name:
\* construction has panicked, listing two or more names.
C20_Witness ==
  /\ built = "panic"
  /\ tIsInterface
  /\ ~isNil(fallback)
  /\ Len(choices) = 2
  /\ WellFormedChoices
  /\ Qualifying = {}
  /\ Cardinality(ConstWireNames) >= 2
  /\ panicVal.msg = "cannot determine discriminator from possibles"

\* A fallback and no choices: construction has succeeded without a
\* discriminator.
C20_WitnessNoChoices ==
  /\ built = "ok"
  /\ tIsInterface
  /\ ~isNil(fallback)
  /\ Len(choices) = 0
  /\ discrimField = ""

\* The input of the call is a JSON value other than an object.
NonObjectInput == input.k \in {"array", "string", "number", "bool", "null"}

(***************************************************************************)
(* C21.  Through a dispatcher with a discriminator and a fallback, an      *)
(* input that is not a JSON object makes the call fail with the "expected  *)
(* object" error and is not handed to the fallback; the fallback is the    *)
(* decode target only for an object that lacks the discriminator member or *)
(* carries an unknown value.                                               *)
(***************************************************************************)
C21_NonObjectNotFallback ==
  (Dispatched /\ ~isNil(fallback)) =>
     /\ NonObjectInput =>
          /\ outcome = "error"
          /\ errMsg.msg = "expected object"
          /\ target # fallback
     /\ (target = fallback /\ input.k # "malformed") => (MissingField \/ UnknownValue)

\* fieldValue has returned from a call on input and discrimField.
Scanned == call.op = "fieldValue"

\* The first top-level member of the object with this name (0 if none).
FirstNamed(j, w) == IF HasMember(j, w) THEN CHOOSE i \in DOMAIN j.mem : j.mem[i].name = w /\ \A k \in 1..(i - 1) : j.mem[k].name # w ELSE 0

\* The names of the first n members are pairwise distinct.
DistinctUpTo(j, n) == \A a, b \in 1..n : a # b => j.mem[a].name # j.mem[b].name

\* The name occurs in some value below the top level of the object.
RECURSIVE Mentions(_, _)
Mentions(v, w) ==
  \/ v.k = "string" /\ v.s = w
  \/ \E i \in DOMAIN v.mem : v.mem[i].name = w \/ Mentions(v.mem[i].val, w)

NestedOnly(j, w) == ~HasMember(j, w) /\ \E i \in DOMAIN j.mem : Mentions(j.mem[i].val, w)

\* The outcome of the scan equals that of the member-by-member scan used by
\* the decode closure, on every text the closure's ReadValue lets through.
ScanAgrees == (Scanned /\ ReadValueErr(input) = "") => fieldValue(input, discrimField) = [err |-> call.err, val |-> call.val]

(***************************************************************************)
(* C22.  fieldValue(data, F) looks at the top level of the object only: it *)
(* returns the generically decoded value of the first top-level member     *)
(* named F; when no top-level member is named F it fails with              *)
(* "discriminator field F not found", also when the name occurs inside the *)
(* value of another member; and it fails for data that is not an object.   *)
(***************************************************************************)
C22_FieldValueTopLevel ==
  Scanned =>
     /\ input.k # "object" => call.err # ""
     /\ (input.k = "object" /\ HasMember(input, discrimField) /\ DistinctUpTo(input, FirstNamed(input, discrimField))) =>
          /\ call.err = ""
          /\ call.val = UnmarshalAny(input.mem[FirstNamed(input, discrimField)].val)
     /\ (input.k = "object" /\ ~HasMember(input, discrimField) /\ DistinctUpTo(input, Len(input.mem))) =>
          /\ call.err = "discriminator field not found"
          /\ call.val = GoNil

\* The name occurs only inside the values of two other members, an object
\* and an array, and the call has failed.
C22_Witness ==
  /\ Scanned
  /\ input.k = "object"
  /\ Len(input.mem) = 2
  /\ NestedOnly(input, discrimField)
  /\ input.mem[1].name # input.mem[2].name
  /\ input.mem[1].val.k = "object"
  /\ input.mem[2].val.k = "array"
  /\ call.err = "discriminator field not found"

\* The name is found behind a member whose value is an object holding the
\* same name.
C22_WitnessFound ==
  /\ Scanned
  /\ input.k = "object"
  /\ FirstNamed(input, discrimField) = 2
  /\ input.mem[1].val.k = "object"
  /\ Mentions(input.mem[1].val, discrimField)
  /\ call.err = ""
  /\ call.val = GoVal("float64", "", 42)

\* The type parameter T of the Const disagrees with the field of S.
Mistyped(c) == c # NoConst /\ c.T # c.S.ftype

\* No goroutine calling Value() on a mistyped Const has a result, and no
\* goroutine calling it on a well-typed Const has panicked or has a result
\* other than the constant.
MistypedPanics ==
  \A g \in Goroutines :
     /\ Mistyped(goroutines[g].c) => goroutines[g].pc # "done"
     /\ (goroutines[g].c # NoConst /\ ~Mistyped(goroutines[g].c)) =>
          /\ goroutines[g].pc # "panicked"
          /\ goroutines[g].pc = "done" => goroutines[g].ret = DeclaredValue(goroutines[g].c)

\* A step of a goroutine inside Value() on a mistyped Const leaves the memo
\* as it is.
MistypedKeepsMemo ==
  \A g \in Goroutines :
     (goroutines'[g] # goroutines[g] /\ (Mistyped(goroutines[g].c) \/ Mistyped(goroutines'[g].c))) => constByType' = constByType

(***************************************************************************)
(* C23.  Value() on a Const whose T disagrees with the field type of S     *)
(* panics on every call, whether the memo entry for S is absent or was     *)
(* stored by a well-typed Const sharing S; the failing call never creates  *)
(* or changes a memo entry, and the well-typed Const goes on returning its *)
(* constant.                                                               *)
(***************************************************************************)
C23_MistypedAlwaysPanics == []MistypedPanics /\ [][MistypedKeepsMemo]_vars

\* The memo entry for S is populated: one goroutine has panicked at the type
\* assertion on the entry it loaded, and another has the constant of the
\* well-typed Const sharing S.
C23_Witness ==
  \E g, h \in Goroutines :
     /\ Mistyped(goroutines[g].c)
     /\ goroutines[g].pc = "panicked"
     /\ goroutines[g].info0 # NoInfo
     /\ goroutines[h].pc = "done"
     /\ goroutines[h].c.S = goroutines[g].c.S
     /\ goroutines[h].ret = GoVal("string", "foo", 0)

\* The memo entry for S is absent: the goroutine has panicked in
\* makeConstInfo and the entry is still absent.
C23_WitnessAbsent ==
  \E g \in Goroutines :
     /\ Mistyped(goroutines[g].c)
     /\ goroutines[g].pc = "panicked"
     /\ goroutines[g].info0 = NoInfo
     /\ constByType[goroutines[g].c.S] = NoInfo

\* The last call returned the "unknown discriminator value" error.
UnknownValueError == Dispatched /\ outcome = "error" /\ errMsg.msg = "unknown discriminator value"

(***************************************************************************)
(* C24.  The "unknown discriminator value" error of a dispatcher without a *)
(* fallback carries the offending value and lists the valid values: the    *)
(* keys of the dispatch table, all of them and nothing else.               *)
(***************************************************************************)
C24_UnknownValueListsKeys ==
  (UnknownValueError /\ isNil(fallback)) =>
     /\ errMsg.value = UnmarshalAny(MemberValue(input, discrimField))
     /\ errMsg.listed = MapKeys(discrimByValue)

\* No result is a pointer passed at construction, or nil.
ResultsNew == \A i \in DOMAIN refs.results : refs.results[i] \in DOMAIN heap \ PassedAddrs(refs)

\* No two results are the same pointer.
ResultsApart == \A i, j \in DOMAIN refs.results : i # j => refs.results[i] # refs.results[j]

\* The structs passed at construction hold what they held then.
PassedKept == \A a \in PassedAddrs(refs) : heap[a] = NewStruct(PassedType(refs, a))

\* The last result is the struct the last successful call decoded, of the
\* type of the value it chose.
ResultStored ==
  (outcome = "ok" /\ Len(refs.results) > 0) =>
     /\ heap[refs.results[Len(refs.results)]] = dst
     /\ dst.type = target.type.name

(***************************************************************************)
(* C25.  Every successful decode stores a newly allocated instance of the  *)
(* chosen type: after any sequence of decode calls through one dispatcher  *)
(* no result is a candidate or fallback pointer passed at construction, no *)
(* two results are the same instance, and the structs passed at            *)
(* construction are unmodified.                                            *)
(***************************************************************************)
C25_FreshInstances == ResultsNew /\ ResultsApart /\ PassedKept /\ ResultStored

\* Two successful calls through the same candidate, passed as a pointer to
\* a struct of its own: two results.
C25_Witness ==
  /\ Len(refs.results) = 2
  /\ target \in {choices[i] : i \in DOMAIN choices}
  /\ AddrOf(target) # 0
  /\ heap[refs.results[1]].type = target.type.name
  /\ heap[refs.results[2]].type = target.type.name
  /\ heap[refs.results[2]] # NewStruct(target.type)

\* Two successful calls through a fallback passed as a pointer to a struct.
C25_WitnessFallback ==
  /\ Len(refs.results) = 2
  /\ refs.fallback # 0
  /\ target = fallback
  /\ heap[refs.results[1]].type = fallback.type.name

====
